---- MODULE Spec2Model ----
(***************************************************************************)
(* Model of src/app.py: the Mergington High School activities API.         *)
(* State: the three module-level dictionaries (activities, teachers,       *)
(* sessions).  One action per HTTP handler; each request runs to           *)
(* completion.  req and resp record the request last served (its path and  *)
(* query parameters, payload, and the token extracted from it) and the     *)
(* response it got, so that properties can speak about outcomes.           *)
(***************************************************************************)
EXTENDS Integers, Sequences, FiniteSets, TLC

VARIABLES activities, teachers, sessions, req, resp

vars == <<activities, teachers, sessions, req, resp>>

(* ---------------------------------------------------------------------- *)
(* Bounds                                                                  *)
(* ---------------------------------------------------------------------- *)

\* number of distinct values uuid4().hex may return in the model
NumTokens == 2

\* number of further students that may be signed up for Chess Club when
\* the roster is filled beyond max_participants
NumStudents == 11

\* number of threadpool workers serving requests at the same time
NumThreads == 2

(* ---------------------------------------------------------------------- *)
(* Values                                                                  *)
(* ---------------------------------------------------------------------- *)

\* Python's None (distinct from every string a request carries)
None == "<None>"

\* Python truthiness of an Optional[str]: None and "" are falsy
Falsy(v) == v = None \/ v = ""

TokenPool == <<"a3f1", "b7c2", "c9d4", "d0e5">>

\* the values uuid.uuid4().hex can return
Tokens == {TokenPool[i] : i \in 1..NumTokens}

\* a token-shaped string that uuid4 never returns in the model
ForgedToken == "forged"

\* (activity_name, email) pairs a signup or unregister request may carry:
\* an email seeded in Chess Club, an email seeded nowhere, for two seeded
\* activities and for a name that is no activity
Targets == {<<"Chess Club", "michael@mergington.edu">>,
            <<"Chess Club", "new@x.edu">>,
            <<"Programming Class", "new@x.edu">>,
            <<"Knitting Club", "new@x.edu">>}

\* admin_token cookie values
CookieValues == {None, ""} \cup Tokens \cup {ForgedToken}

\* X-Admin-Token header values
HeaderValues == {None, TokenPool[1]}

Requests == [cookies : CookieValues, headers : HeaderValues]

\* payload.get("username"), payload.get("password")
PayloadUsernames == {None, "", "alice", "bob", "mallory"}

PayloadPasswords == {None, "", "pw1", "pw2"}

EmptyDict == [k \in {} |-> None]

\* possible contents of teachers.json: absent, not JSON, or a JSON object
\* of usernames and (non-empty) plaintext passwords
TeacherFiles ==
    { [kind |-> "missing"],
      [kind |-> "malformed"],
      [kind |-> "json",
       data |-> [u \in {"alice", "bob"} |-> IF u = "alice" THEN "pw1" ELSE "pw2"]] }

(* ---------------------------------------------------------------------- *)
(* Helpers for Python lists and dicts                                      *)
(* ---------------------------------------------------------------------- *)

\* x in list
InList(x, list) == \E i \in 1..Len(list) : list[i] = x

\* number of occurrences of x in list
Count(x, list) == Cardinality({i \in 1..Len(list) : list[i] = x})

\* index of the first occurrence of x in list (x is in list)
FirstIndex(x, list) == CHOOSE i \in 1..Len(list) :
                          /\ list[i] = x
                          /\ \A j \in 1..(i-1) : list[j] # x

\* list.append(x) left out
list_append_dropped(list, x) == list

\* list.insert(0, x) in place of list.append(x)
list_append_front(list, x) == <<x>> \o list

\* list.append(x)
list_append(list, x) == Append(list, x)

\* list.pop() in place of list.remove(x)
list_remove_last(list, x) == SubSeq(list, 1, Len(list) - 1)

\* del list[0] in place of list.remove(x)
list_remove_head(list, x) == Tail(list)

\* list.remove(x): drops the first occurrence of x
list_remove(list, x) ==
    LET k == FirstIndex(x, list)
    IN  [i \in 1..(Len(list)-1) |-> IF i < k THEN list[i] ELSE list[i+1]]

\* d[k] = v
dict_set(d, k, v) == [x \in DOMAIN d \cup {k} |-> IF x = k THEN v ELSE d[x]]

\* del d[k]
dict_del(d, k) == [x \in DOMAIN d \ {k} |-> d[x]]

(* ---------------------------------------------------------------------- *)
(* Seed data                                                               *)
(* ---------------------------------------------------------------------- *)

\* the first two of the nine seeded activities
SeedActivities ==
    [n \in {"Chess Club", "Programming Class"} |->
        IF n = "Chess Club"
        THEN [description |-> "Learn strategies and compete in chess tournaments",
              schedule |-> "Fridays, 3:30 PM - 5:00 PM",
              max_participants |-> 12,
              participants |-> <<"michael@mergington.edu", "daniel@mergington.edu">>]
        ELSE [description |-> "Learn programming fundamentals and build software projects",
              schedule |-> "Tuesdays and Thursdays, 3:30 PM - 4:30 PM",
              max_participants |-> 20,
              participants |-> <<"emma@mergington.edu", "sophia@mergington.edu">>]]

(* ---------------------------------------------------------------------- *)
(* Responses                                                               *)
(* ---------------------------------------------------------------------- *)

\* raise HTTPException(status_code, detail)
HTTPException(status_code, detail) ==
    [status |-> status_code, detail |-> detail]

\* return {"message": ...}
Message(m) == [status |-> 200, message |-> m]

(* ---------------------------------------------------------------------- *)
(* Startup                                                                 *)
(* ---------------------------------------------------------------------- *)

\* load_teachers falling back to a built-in account when the file cannot
\* be read
load_teachers_default_account(file) ==
    IF file.kind = "json" THEN file.data ELSE [u \in {"alice"} |-> "pw1"]

load_teachers(file) ==
    IF file.kind = "json" THEN file.data ELSE EmptyDict

(* ---------------------------------------------------------------------- *)
(* Authentication helpers                                                  *)
(* ---------------------------------------------------------------------- *)

\* get_token_from_request consulting the header before the cookie
get_token_from_request_header_first(request) ==
    IF ~Falsy(request.headers) THEN request.headers ELSE request.cookies

get_token_from_request(request) ==
    IF ~Falsy(request.cookies) THEN request.cookies ELSE request.headers

\* require_teacher without the lookup in sessions
require_teacher_any_token(request) ==
    LET token == get_token_from_request(request)
    IN  IF Falsy(token)
        THEN [ok |-> FALSE,
              exc |-> HTTPException(401, "Admin authentication required")]
        ELSE [ok |-> TRUE,
              username |-> IF token \in DOMAIN sessions THEN sessions[token] ELSE None]

\* ok with the session's username when require_teacher returns it, not ok
\* with the exception when it raises
require_teacher(request) ==
    LET token == get_token_from_request(request)
    IN  IF Falsy(token) \/ token \notin DOMAIN sessions
        THEN [ok |-> FALSE,
              exc |-> HTTPException(401, "Admin authentication required")]
        ELSE [ok |-> TRUE, username |-> sessions[token]]

(* ---------------------------------------------------------------------- *)
(* Handlers: response and new store contents for one request               *)
(* ---------------------------------------------------------------------- *)

\* signup_for_activity without the "already signed up" test
signup_for_activity_no_duplicate_check(activity_name, email, request) ==
    IF ~require_teacher(request).ok
    THEN [resp |-> require_teacher(request).exc,
          activities |-> activities]
    ELSE IF activity_name \notin DOMAIN activities
    THEN [resp |-> HTTPException(404, "Activity not found"),
          activities |-> activities]
    ELSE [resp |-> Message("Signed up " \o email \o " for " \o activity_name),
          activities |-> [activities EXCEPT ![activity_name].participants =
                              list_append(@, email)]]

\* signup_for_activity refusing a signup once max_participants is reached
signup_for_activity_capacity_check(activity_name, email, request) ==
    IF ~require_teacher(request).ok
    THEN [resp |-> require_teacher(request).exc,
          activities |-> activities]
    ELSE IF activity_name \notin DOMAIN activities
    THEN [resp |-> HTTPException(404, "Activity not found"),
          activities |-> activities]
    ELSE IF InList(email, activities[activity_name].participants)
    THEN [resp |-> HTTPException(400, "Student is already signed up"),
          activities |-> activities]
    ELSE IF Len(activities[activity_name].participants) >=
                activities[activity_name].max_participants
    THEN [resp |-> HTTPException(400, "Activity is full"),
          activities |-> activities]
    ELSE [resp |-> Message("Signed up " \o email \o " for " \o activity_name),
          activities |-> [activities EXCEPT ![activity_name].participants =
                              list_append(@, email)]]

\* signup_for_activity where all activities share one participants list
signup_for_activity_shared_list(activity_name, email, request) ==
    IF ~require_teacher(request).ok
    THEN [resp |-> require_teacher(request).exc,
          activities |-> activities]
    ELSE IF activity_name \notin DOMAIN activities
    THEN [resp |-> HTTPException(404, "Activity not found"),
          activities |-> activities]
    ELSE IF InList(email, activities[activity_name].participants)
    THEN [resp |-> HTTPException(400, "Student is already signed up"),
          activities |-> activities]
    ELSE [resp |-> Message("Signed up " \o email \o " for " \o activity_name),
          activities |-> [n \in DOMAIN activities |->
                            [activities[n] EXCEPT !.participants =
                                list_append(activities[activity_name].participants,
                                            email)]]]

\* signup_for_activity appending before it tests for the duplicate
signup_for_activity_append_first(activity_name, email, request) ==
    IF ~require_teacher(request).ok
    THEN [resp |-> require_teacher(request).exc,
          activities |-> activities]
    ELSE IF activity_name \notin DOMAIN activities
    THEN [resp |-> HTTPException(404, "Activity not found"),
          activities |-> activities]
    ELSE IF InList(email, activities[activity_name].participants)
    THEN [resp |-> HTTPException(400, "Student is already signed up"),
          activities |-> [activities EXCEPT ![activity_name].participants =
                              list_append(@, email)]]
    ELSE [resp |-> Message("Signed up " \o email \o " for " \o activity_name),
          activities |-> [activities EXCEPT ![activity_name].participants =
                              list_append(@, email)]]

signup_for_activity(activity_name, email, request) ==
    IF ~require_teacher(request).ok
    THEN [resp |-> require_teacher(request).exc,
          activities |-> activities]
    ELSE IF activity_name \notin DOMAIN activities
    THEN [resp |-> HTTPException(404, "Activity not found"),
          activities |-> activities]
    ELSE IF InList(email, activities[activity_name].participants)
    THEN [resp |-> HTTPException(400, "Student is already signed up"),
          activities |-> activities]
    ELSE [resp |-> Message("Signed up " \o email \o " for " \o activity_name),
          activities |-> [activities EXCEPT ![activity_name].participants =
                              list_append(@, email)]]

\* unregister_from_activity looking the activity up before authenticating
unregister_from_activity_existence_first(activity_name, email, request) ==
    IF activity_name \notin DOMAIN activities
    THEN [resp |-> HTTPException(404, "Activity not found"),
          activities |-> activities]
    ELSE IF ~require_teacher(request).ok
    THEN [resp |-> require_teacher(request).exc,
          activities |-> activities]
    ELSE IF ~InList(email, activities[activity_name].participants)
    THEN [resp |-> HTTPException(400, "Student is not signed up for this activity"),
          activities |-> activities]
    ELSE [resp |-> Message("Unregistered " \o email \o " from " \o activity_name),
          activities |-> [activities EXCEPT ![activity_name].participants =
                              list_remove(@, email)]]

unregister_from_activity(activity_name, email, request) ==
    IF ~require_teacher(request).ok
    THEN [resp |-> require_teacher(request).exc,
          activities |-> activities]
    ELSE IF activity_name \notin DOMAIN activities
    THEN [resp |-> HTTPException(404, "Activity not found"),
          activities |-> activities]
    ELSE IF ~InList(email, activities[activity_name].participants)
    THEN [resp |-> HTTPException(400, "Student is not signed up for this activity"),
          activities |-> activities]
    ELSE [resp |-> Message("Unregistered " \o email \o " from " \o activity_name),
          activities |-> [activities EXCEPT ![activity_name].participants =
                              list_remove(@, email)]]

\* admin_login storing the session before it verifies the password
admin_login_session_before_check(username, password, uuid4hex) ==
    IF Falsy(username) \/ Falsy(password)
    THEN [resp |-> HTTPException(400, "username and password required"),
          sessions |-> sessions]
    ELSE IF username \notin DOMAIN teachers
    THEN [resp |-> HTTPException(401, "invalid credentials"),
          sessions |-> sessions]
    ELSE IF teachers[username] # password
    THEN [resp |-> HTTPException(401, "invalid credentials"),
          sessions |-> dict_set(sessions, uuid4hex, username)]
    ELSE [resp |-> [status |-> 200, message |-> "logged in", token |-> uuid4hex,
                    set_cookie |-> uuid4hex],
          sessions |-> dict_set(sessions, uuid4hex, username)]

\* admin_login comparing the password only for usernames teachers holds
admin_login_unknown_username(username, password, uuid4hex) ==
    IF Falsy(username) \/ Falsy(password)
    THEN [resp |-> HTTPException(400, "username and password required"),
          sessions |-> sessions]
    ELSE IF username \in DOMAIN teachers /\ teachers[username] # password
    THEN [resp |-> HTTPException(401, "invalid credentials"),
          sessions |-> sessions]
    ELSE [resp |-> [status |-> 200, message |-> "logged in", token |-> uuid4hex,
                    set_cookie |-> uuid4hex],
          sessions |-> dict_set(sessions, uuid4hex, username)]

\* uuid4hex is the value uuid.uuid4().hex returns in this call
admin_login(username, password, uuid4hex) ==
    IF Falsy(username) \/ Falsy(password)
    THEN [resp |-> HTTPException(400, "username and password required"),
          sessions |-> sessions]
    ELSE IF username \notin DOMAIN teachers \/ teachers[username] # password
    THEN [resp |-> HTTPException(401, "invalid credentials"),
          sessions |-> sessions]
    ELSE [resp |-> [status |-> 200, message |-> "logged in", token |-> uuid4hex,
                    set_cookie |-> uuid4hex],
          sessions |-> dict_set(sessions, uuid4hex, username)]

\* admin_logout that clears the cookie but keeps the session
admin_logout_keeps_session(request) ==
    [resp |-> [status |-> 200, message |-> "logged out",
               delete_cookie |-> "admin_token"],
     sessions |-> sessions]

admin_logout(request) ==
    LET token == get_token_from_request(request)
    IN  [resp |-> [status |-> 200, message |-> "logged out",
                   delete_cookie |-> "admin_token"],
         sessions |-> IF ~Falsy(token) /\ token \in DOMAIN sessions
                      THEN dict_del(sessions, token)
                      ELSE sessions]

(* ---------------------------------------------------------------------- *)
(* Specification                                                           *)
(* ---------------------------------------------------------------------- *)

\* state once the module is imported and startup_event has run
Init ==
    /\ activities = SeedActivities
    /\ \E file \in TeacherFiles : teachers = load_teachers(file)
    /\ sessions = EmptyDict
    /\ resp = [status |-> 0]
    /\ req = [op |-> "startup"]

\* GET /
root ==
    /\ req' = [op |-> "root"]
    /\ resp' = [status |-> 307, location |-> "/static/index.html"]
    /\ UNCHANGED <<activities, teachers, sessions>>

\* GET /activities
get_activities ==
    /\ req' = [op |-> "get_activities"]
    /\ resp' = [status |-> 200, body |-> activities]
    /\ UNCHANGED <<activities, teachers, sessions>>

\* POST /activities/{activity_name}/signup?email=
Signup(activity_name, email, request) ==
    LET out == signup_for_activity(activity_name, email, request)
    IN  /\ req' = [op |-> "signup", activity_name |-> activity_name, email |-> email,
                   token |-> get_token_from_request(request)]
        /\ resp' = out.resp
        /\ activities' = out.activities
        /\ UNCHANGED <<teachers, sessions>>

\* DELETE /activities/{activity_name}/unregister?email=
Unregister(activity_name, email, request) ==
    LET out == unregister_from_activity(activity_name, email, request)
    IN  /\ req' = [op |-> "unregister", activity_name |-> activity_name, email |-> email,
                   token |-> get_token_from_request(request)]
        /\ resp' = out.resp
        /\ activities' = out.activities
        /\ UNCHANGED <<teachers, sessions>>

\* POST /admin/login.  uuid4hex is any value uuid4 can return: admin_login
\* does not look it up in sessions before it stores the session.
Login(username, password, uuid4hex) ==
    LET out == admin_login(username, password, uuid4hex)
    IN  /\ req' = [op |-> "login", username |-> username, password |-> password]
        /\ resp' = out.resp
        /\ sessions' = out.sessions
        /\ UNCHANGED <<activities, teachers>>

\* POST /admin/logout
Logout(request) ==
    LET out == admin_logout(request)
    IN  /\ req' = [op |-> "logout", token |-> get_token_from_request(request)]
        /\ resp' = out.resp
        /\ sessions' = out.sessions
        /\ UNCHANGED <<activities, teachers>>

Next ==
    \/ root
    \/ get_activities
    \/ \E t \in Targets, request \in Requests :
          Signup(t[1], t[2], request)
    \/ \E t \in Targets, request \in Requests :
          Unregister(t[1], t[2], request)
    \/ \E username \in PayloadUsernames, password \in PayloadPasswords, uuid4hex \in Tokens :
          Login(username, password, uuid4hex)
    \/ \E request \in Requests : Logout(request)

Spec == Init /\ [][Next]_vars

(* ---------------------------------------------------------------------- *)
(* Filling one roster: the same handlers, with students signing up for     *)
(* Chess Club one after the other                                          *)
(* ---------------------------------------------------------------------- *)

StudentPool == <<"s01@x.edu", "s02@x.edu", "s03@x.edu", "s04@x.edu", "s05@x.edu",
                 "s06@x.edu", "s07@x.edu", "s08@x.edu", "s09@x.edu", "s10@x.edu",
                 "s11@x.edu", "s12@x.edu", "s13@x.edu", "s14@x.edu">>

\* how many students of the pool are in the Chess Club list
StudentsSignedUp ==
    Cardinality({i \in 1..NumStudents :
                    InList(StudentPool[i], activities["Chess Club"].participants)})

\* emails the next roster request may carry: the student signed up last and
\* the student who is next in line
StudentsInTurn ==
    {StudentPool[i] : i \in {StudentsSignedUp, StudentsSignedUp + 1} \cap 1..NumStudents}

\* a request without a token and a request with a token in the cookie
CapacityRequests ==
    {[cookies |-> None, headers |-> None],
     [cookies |-> TokenPool[1], headers |-> None]}

CapacityNext ==
    \/ Login("alice", "pw1", TokenPool[1])
    \/ \E request \in CapacityRequests : Logout(request)
    \/ \E email \in StudentsInTurn, request \in CapacityRequests :
          Signup("Chess Club", email, request)
    \/ \E email \in StudentsInTurn, request \in CapacityRequests :
          Unregister("Chess Club", email, request)

SpecCapacity == Init /\ [][CapacityNext]_vars

(* ---------------------------------------------------------------------- *)
(* The same handlers, with req also recording the cookie and the header   *)
(* of the request                                                          *)
(* ---------------------------------------------------------------------- *)

SignupRecorded(activity_name, email, request) ==
    LET out == signup_for_activity(activity_name, email, request)
    IN  /\ req' = [op |-> "signup", activity_name |-> activity_name, email |-> email,
                   token |-> get_token_from_request(request),
                   cookies |-> request.cookies, headers |-> request.headers]
        /\ resp' = out.resp
        /\ activities' = out.activities
        /\ UNCHANGED <<teachers, sessions>>

UnregisterRecorded(activity_name, email, request) ==
    LET out == unregister_from_activity(activity_name, email, request)
    IN  /\ req' = [op |-> "unregister", activity_name |-> activity_name, email |-> email,
                   token |-> get_token_from_request(request),
                   cookies |-> request.cookies, headers |-> request.headers]
        /\ resp' = out.resp
        /\ activities' = out.activities
        /\ UNCHANGED <<teachers, sessions>>

LogoutRecorded(request) ==
    LET out == admin_logout(request)
    IN  /\ req' = [op |-> "logout", token |-> get_token_from_request(request),
                   cookies |-> request.cookies, headers |-> request.headers]
        /\ resp' = out.resp
        /\ sessions' = out.sessions
        /\ UNCHANGED <<activities, teachers>>

\* roster requests for one seeded activity and for a name that is no activity
RecordedTargets == {<<"Chess Club", "new@x.edu">>, <<"Knitting Club", "new@x.edu">>}

NextRecorded ==
    \/ get_activities
    \/ \E t \in RecordedTargets, request \in Requests :
          SignupRecorded(t[1], t[2], request)
    \/ \E t \in RecordedTargets, request \in Requests :
          UnregisterRecorded(t[1], t[2], request)
    \/ \E username \in PayloadUsernames, password \in PayloadPasswords, uuid4hex \in Tokens :
          Login(username, password, uuid4hex)
    \/ \E request \in Requests : LogoutRecorded(request)

SpecRecorded == Init /\ [][NextRecorded]_vars

(* ---------------------------------------------------------------------- *)
(* Startup without a readable teachers.json                                *)
(* ---------------------------------------------------------------------- *)

UnreadableTeacherFiles == {file \in TeacherFiles : file.kind # "json"}

InitNoTeachers ==
    /\ activities = SeedActivities
    /\ \E file \in UnreadableTeacherFiles : teachers = load_teachers(file)
    /\ sessions = EmptyDict
    /\ resp = [status |-> 0]
    /\ req = [op |-> "startup"]

NextNoTeachers ==
    \/ root
    \/ get_activities
    \/ \E t \in Targets, request \in Requests :
          SignupRecorded(t[1], t[2], request)
    \/ \E t \in Targets, request \in Requests :
          UnregisterRecorded(t[1], t[2], request)
    \/ \E username \in PayloadUsernames, password \in PayloadPasswords, uuid4hex \in Tokens :
          Login(username, password, uuid4hex)
    \/ \E request \in Requests : LogoutRecorded(request)

SpecNoTeachers == InitNoTeachers /\ [][NextNoTeachers]_vars

(* ---------------------------------------------------------------------- *)
(* Interleaved handlers.  The handlers are plain `def` functions, which    *)
(* the framework runs in worker threads without any lock: a thread can be  *)
(* preempted between two statements of signup_for_activity or of           *)
(* unregister_from_activity.  Here req[t] is the request thread t is       *)
(* serving with its position pc in the handler, and resp[t] the response   *)
(* to that request once thread t has sent it.                              *)
(* ---------------------------------------------------------------------- *)

Threads == 1..NumThreads

\* roster requests for one seeded activity and for a name that is no activity
RaceTargets == {<<"Chess Club", "new@x.edu">>, <<"Knitting Club", "new@x.edu">>}

\* a request without a token and a request with a token in the cookie
RaceRequests ==
    {[cookies |-> None, headers |-> None],
     [cookies |-> TokenPool[1], headers |-> None]}

\* an uncaught exception in a handler is answered 500 by the framework
InternalServerError == [status |-> 500, detail |-> "Internal Server Error"]

\* thread t is not inside a handler
Free(t) == req[t].pc \in {"idle", "done"}

\* thread t returns response
Finish(t, response) ==
    /\ req' = [req EXCEPT ![t].pc = "done"]
    /\ resp' = [resp EXCEPT ![t] = response]

\* thread t goes on to the statement at position pc
Goto(t, pc) ==
    /\ req' = [req EXCEPT ![t].pc = pc]
    /\ UNCHANGED resp

\* the append of signup_for_activity, made although the email is in the
\* list by now only if the list is tested again
signup_append_rechecked(activity_name, email) ==
    IF InList(email, activities[activity_name].participants)
    THEN [resp |-> HTTPException(400, "Student is already signed up"),
          activities |-> activities]
    ELSE [resp |-> Message("Signed up " \o email \o " for " \o activity_name),
          activities |-> [activities EXCEPT ![activity_name].participants =
                              list_append(@, email)]]

\* activity["participants"].append(email) and the return
signup_append(activity_name, email) ==
    [resp |-> Message("Signed up " \o email \o " for " \o activity_name),
     activities |-> [activities EXCEPT ![activity_name].participants =
                         list_append(@, email)]]

\* activity["participants"].remove(email) and the return; list.remove
\* raises ValueError when the email is not in the list
unregister_remove(activity_name, email) ==
    IF InList(email, activities[activity_name].participants)
    THEN [resp |-> Message("Unregistered " \o email \o " from " \o activity_name),
          activities |-> [activities EXCEPT ![activity_name].participants =
                              list_remove(@, email)]]
    ELSE [resp |-> InternalServerError,
          activities |-> activities]

RaceInit ==
    /\ activities = SeedActivities
    /\ \E file \in TeacherFiles : teachers = load_teachers(file)
    /\ sessions = EmptyDict
    /\ req = [t \in Threads |-> [op |-> "none", pc |-> "idle"]]
    /\ resp = [t \in Threads |-> [status |-> 0]]

\* thread t serves a login from beginning to end
RaceLogin(t) ==
    LET out == admin_login("alice", "pw1", TokenPool[1])
    IN  /\ Free(t)
        /\ req' = [req EXCEPT ![t] = [op |-> "login", pc |-> "done"]]
        /\ resp' = [resp EXCEPT ![t] = out.resp]
        /\ sessions' = out.sessions
        /\ UNCHANGED <<activities, teachers>>

\* thread t is handed a signup or unregister request
RaceAccept(t, op, activity_name, email, request) ==
    /\ Free(t)
    /\ req' = [req EXCEPT ![t] = [op |-> op, pc |-> "auth",
                                  activity_name |-> activity_name,
                                  email |-> email, request |-> request]]
    /\ resp' = [resp EXCEPT ![t] = [status |-> 0]]
    /\ UNCHANGED <<activities, teachers, sessions>>

\* require_teacher(request)
RaceAuth(t) ==
    /\ req[t].pc = "auth"
    /\ IF ~require_teacher(req[t].request).ok
       THEN Finish(t, require_teacher(req[t].request).exc)
       ELSE Goto(t, "lookup")
    /\ UNCHANGED <<activities, teachers, sessions>>

\* if activity_name not in activities ... activity = activities[activity_name]
RaceLookup(t) ==
    /\ req[t].pc = "lookup"
    /\ IF req[t].activity_name \notin DOMAIN activities
       THEN Finish(t, HTTPException(404, "Activity not found"))
       ELSE Goto(t, "check")
    /\ UNCHANGED <<activities, teachers, sessions>>

\* if email in activity["participants"] / if email not in ...
RaceCheck(t) ==
    /\ req[t].pc = "check"
    /\ LET present == InList(req[t].email,
                             activities[req[t].activity_name].participants)
       IN  IF req[t].op = "signup"
           THEN IF present
                THEN Finish(t, HTTPException(400, "Student is already signed up"))
                ELSE Goto(t, "mutate")
           ELSE IF ~present
                THEN Finish(t, HTTPException(400,
                                   "Student is not signed up for this activity"))
                ELSE Goto(t, "mutate")
    /\ UNCHANGED <<activities, teachers, sessions>>

\* the append or the remove, and the return
RaceMutate(t) ==
    /\ req[t].pc = "mutate"
    /\ LET out == IF req[t].op = "signup"
                  THEN signup_append(req[t].activity_name, req[t].email)
                  ELSE unregister_remove(req[t].activity_name, req[t].email)
       IN  /\ Finish(t, out.resp)
           /\ activities' = out.activities
    /\ UNCHANGED <<teachers, sessions>>

RaceNext ==
    \E t \in Threads :
        \/ RaceLogin(t)
        \/ \E op \in {"signup", "unregister"}, tg \in RaceTargets, request \in RaceRequests :
              RaceAccept(t, op, tg[1], tg[2], request)
        \/ RaceAuth(t)
        \/ RaceLookup(t)
        \/ RaceCheck(t)
        \/ RaceMutate(t)

SpecRace == RaceInit /\ [][RaceNext]_vars

(* ---------------------------------------------------------------------- *)
(* Properties                                                              *)
(* ---------------------------------------------------------------------- *)

Participants(n) == activities[n].participants

\* the request just served was a signup or an unregister
IsRosterRequest(r) == r.op \in {"signup", "unregister"}

\* C1: in every reachable state no email appears more than once in the
\* participant list of any activity.
C1_NoDuplicateParticipants ==
    \A n \in DOMAIN activities :
        \A i, j \in 1..Len(Participants(n)) :
            i # j => Participants(n)[i] # Participants(n)[j]

\* a seeded email was unregistered and signed up again behind a later signup
C1_Witness ==
    Participants("Chess Club") =
        <<"daniel@mergington.edu", "new@x.edu", "michael@mergington.edu">>

\* C2: a participant list changes only in a signup or unregister request
\* whose extracted token is a key of sessions when the request is served; a
\* signup or unregister whose token is no key of sessions (none, never
\* issued, logged out) is answered 401 and changes no participant list.
C2_OnlyAuthenticatedRequestsMutate ==
    [][ /\ activities' # activities =>
              IsRosterRequest(req') /\ req'.token \in DOMAIN sessions
        /\ (IsRosterRequest(req') /\ req'.token \notin DOMAIN sessions) =>
              /\ resp' = HTTPException(401, "Admin authentication required")
              /\ activities' = activities
      ]_vars

\* rosters were changed, every session has been logged out, and a request
\* carrying a token got 401
C2_Witness ==
    /\ IsRosterRequest(req)
    /\ req.token \in Tokens
    /\ sessions = EmptyDict
    /\ activities # SeedActivities
    /\ resp.status = 401

\* C3: an authenticated signup(A,E) for an existing activity A with E not in
\* A's participants succeeds and E is then in the list that GET /activities
\* returns; with E already in the list it is answered 400 "already signed
\* up", the list is unchanged and holds E exactly once.
C3_SignupThenDuplicateRejected ==
    [][ /\ (/\ req'.op = "signup"
            /\ req'.token \in DOMAIN sessions
            /\ req'.activity_name \in DOMAIN activities) =>
              LET before == activities[req'.activity_name].participants
                  after  == activities'[req'.activity_name].participants
              IN  IF ~InList(req'.email, before)
                  THEN /\ resp'.status = 200
                       /\ InList(req'.email, after)
                  ELSE /\ resp' = HTTPException(400, "Student is already signed up")
                       /\ after = before
                       /\ Count(req'.email, after) = 1
        /\ req'.op = "get_activities" =>
              resp'.status = 200 /\ resp'.body = activities'
      ]_vars

\* new@x.edu was signed up for Chess Club and a second signup got 400
C3_Witness ==
    /\ req.op = "signup"
    /\ req.activity_name = "Chess Club"
    /\ req.email = "new@x.edu"
    /\ resp.status = 400
    /\ Count("new@x.edu", Participants("Chess Club")) = 1

\* C4: an authenticated unregister(A,E) for an existing activity A with E in
\* A's participants succeeds, the list gets shorter by one, E occurs once
\* less and every other entry occurs as often as before; E is then absent,
\* and an unregister(A,E) with E absent is answered 400 "not signed up".
C4_UnregisterRemovesOneOccurrence ==
    [][ (/\ req'.op = "unregister"
         /\ req'.token \in DOMAIN sessions
         /\ req'.activity_name \in DOMAIN activities) =>
           LET before == activities[req'.activity_name].participants
               after  == activities'[req'.activity_name].participants
           IN  IF InList(req'.email, before)
               THEN /\ resp'.status = 200
                    /\ Len(after) = Len(before) - 1
                    /\ Count(req'.email, after) = Count(req'.email, before) - 1
                    /\ \A i \in 1..Len(before) :
                          before[i] # req'.email =>
                              Count(before[i], after) = Count(before[i], before)
                    /\ ~InList(req'.email, after)
               ELSE /\ resp' = HTTPException(400,
                                   "Student is not signed up for this activity")
                    /\ after = before
      ]_vars

\* the seeded michael was unregistered from Chess Club and a repeated
\* unregister got 400
C4_Witness ==
    /\ req.op = "unregister"
    /\ req.activity_name = "Chess Club"
    /\ req.email = "michael@mergington.edu"
    /\ resp.status = 400
    /\ ~InList("michael@mergington.edu", Participants("Chess Club"))

\* C5: signup and unregister authenticate first, then look the activity up,
\* then test the list: without a session the answer is 401 also for an
\* unknown activity; with a session an unknown activity gives 404 whatever
\* the email; 400 is answered only with a session and an existing activity.
C5_CheckOrder ==
    [][ IsRosterRequest(req') =>
          /\ req'.token \notin DOMAIN sessions => resp'.status = 401
          /\ (req'.token \in DOMAIN sessions
                /\ req'.activity_name \notin DOMAIN activities) =>
                 resp' = HTTPException(404, "Activity not found")
          /\ resp'.status = 400 =>
                 /\ req'.token \in DOMAIN sessions
                 /\ req'.activity_name \in DOMAIN activities
      ]_vars

\* an unregister for an unknown activity without a session got 401 while
\* another session was active
C5_Witness ==
    /\ req.op = "unregister"
    /\ req.activity_name = "Knitting Club"
    /\ req.token \notin DOMAIN sessions
    /\ sessions # EmptyDict
    /\ resp.status = 401

\* the credentials of the login just served match the Teacher Directory
ValidCredentials(r) ==
    /\ r.username \in DOMAIN teachers
    /\ teachers[r.username] = r.password

\* C6: a login with a username of the Teacher Directory and its exact
\* password returns a token T that resolves to that username; from then on,
\* until a logout presents T, T resolves to that same username; after a
\* logout presenting T, T resolves to nothing (401).
C6_LoginResolveLogout ==
    [][ /\ (req'.op = "login" /\ ValidCredentials(req')) =>
              /\ resp'.status = 200
              /\ resp'.token \in DOMAIN sessions'
              /\ sessions'[resp'.token] = req'.username
        /\ \A T \in DOMAIN sessions :
              \/ req'.op = "logout" /\ req'.token = T
              \/ T \in DOMAIN sessions' /\ sessions'[T] = sessions[T]
        /\ req'.op = "logout" => req'.token \notin DOMAIN sessions'
      ]_vars

\* C7: a login that does not succeed creates no session: username or
\* password missing or empty gives 400, otherwise a username absent from the
\* Teacher Directory or a wrong password gives 401 "invalid credentials";
\* in both cases sessions is what it was before the call.
C7_FailedLoginCreatesNoSession ==
    [][ req'.op = "login" =>
          /\ (Falsy(req'.username) \/ Falsy(req'.password)) =>
                /\ resp' = HTTPException(400, "username and password required")
                /\ sessions' = sessions
          /\ (/\ ~Falsy(req'.username)
              /\ ~Falsy(req'.password)
              /\ ~ValidCredentials(req')) =>
                /\ resp' = HTTPException(401, "invalid credentials")
                /\ sessions' = sessions
          /\ resp'.status # 200 => sessions' = sessions
      ]_vars

\* alice's login with bob's password got 401 while a session was active
C7_Witness ==
    /\ req.op = "login"
    /\ req.username = "alice"
    /\ req.password = "pw2"
    /\ resp.status = 401
    /\ sessions # EmptyDict

\* C8: the token of a successful login is no key of sessions when it is
\* generated: the login adds exactly one session and leaves the username of
\* every existing session as it was.
C8_TokenUniqueAmongSessions ==
    [][ (req'.op = "login" /\ resp'.status = 200) =>
          /\ resp'.token \notin DOMAIN sessions
          /\ Cardinality(DOMAIN sessions') = Cardinality(DOMAIN sessions) + 1
          /\ \A t \in DOMAIN sessions :
                t \in DOMAIN sessions' /\ sessions'[t] = sessions[t]
      ]_vars

\* C9: logout always answers 200 "logged out"; afterwards the presented
\* token is no key of sessions and every other session is as before; a
\* logout whose token is no key of sessions (so also a second logout with
\* the same token) leaves sessions unchanged.
C9_LogoutIdempotent ==
    [][ req'.op = "logout" =>
          /\ resp'.status = 200
          /\ resp'.message = "logged out"
          /\ req'.token \notin DOMAIN sessions'
          /\ DOMAIN sessions' = DOMAIN sessions \ {req'.token}
          /\ \A t \in DOMAIN sessions' : sessions'[t] = sessions[t]
          /\ req'.token \notin DOMAIN sessions => sessions' = sessions
      ]_vars

\* a logout presented an issuable token, which is now absent, while another
\* session stays active
C9_Witness ==
    /\ req.op = "logout"
    /\ req.token \in Tokens
    /\ req.token \notin DOMAIN sessions
    /\ sessions # EmptyDict
    /\ resp.message = "logged out"

\* C10: once T is a key of sessions it stays one, with the same username,
\* through every login, signup and unregister and every logout that
\* presents another token or none; only a logout presenting T removes it.
C10_SessionOutlivesOtherRequests ==
    [][ \A T \in DOMAIN sessions :
          (\/ req'.op \in {"login", "signup", "unregister"}
           \/ req'.op = "logout" /\ req'.token # T) =>
              /\ T \in DOMAIN sessions'
              /\ sessions'[T] = sessions[T]
      ]_vars

\* the fields of activity n other than its participants are the seeded ones
SeedMetadata(n) ==
    /\ activities[n].description = SeedActivities[n].description
    /\ activities[n].schedule = SeedActivities[n].schedule
    /\ activities[n].max_participants = SeedActivities[n].max_participants

\* C11: in every reachable state the activity names and each activity's
\* description, schedule and max_participants are those of the seed; a
\* step changes activities only in a signup or unregister, and then only
\* the participant list of the activity the request names.
C11_OnlyNamedRosterChanges ==
    /\ [](/\ DOMAIN activities = DOMAIN SeedActivities
          /\ \A n \in DOMAIN activities : SeedMetadata(n))
    /\ [][ activities' # activities =>
              /\ IsRosterRequest(req')
              /\ req'.activity_name \in DOMAIN activities
              /\ \A n \in DOMAIN activities \ {req'.activity_name} :
                    activities'[n] = activities[n]
         ]_vars

\* a signup changed Chess Club while Programming Class, changed earlier,
\* kept its list
C11_Witness ==
    /\ req.op = "signup"
    /\ req.activity_name = "Chess Club"
    /\ resp.status = 200
    /\ Participants("Programming Class") =
          <<"emma@mergington.edu", "sophia@mergington.edu", "new@x.edu">>
    /\ InList("new@x.edu", Participants("Chess Club"))

\* C12: max_participants is not enforced: an authenticated signup for an
\* existing activity with an email not in its list succeeds and makes the
\* list one longer, whatever the length of the list; lists longer than
\* max_participants are reached.
C12_SignupIgnoresCapacity ==
    [][ (/\ req'.op = "signup"
         /\ req'.token \in DOMAIN sessions
         /\ req'.activity_name \in DOMAIN activities
         /\ ~InList(req'.email, activities[req'.activity_name].participants)) =>
            /\ resp'.status = 200
            /\ Len(activities'[req'.activity_name].participants) =
                  Len(activities[req'.activity_name].participants) + 1
      ]_vars

\* a signup succeeded and Chess Club has more participants than its
\* max_participants
C12_Witness ==
    /\ req.op = "signup"
    /\ req.activity_name = "Chess Club"
    /\ resp.status = 200
    /\ Len(Participants("Chess Club")) > activities["Chess Club"].max_participants

\* the request just served carried a token
IsTokenRequest(r) == r.op \in {"signup", "unregister", "logout"}

\* C13: the token of a request is its admin_token cookie when that is
\* present and non-empty, and its X-Admin-Token header otherwise; a request
\* whose cookie is no key of sessions while its header is one is answered
\* 401 by signup and unregister, which change nothing, and a logout of such
\* a request leaves the header token's session in sessions.
C13_CookieBeforeHeader ==
    [][ IsTokenRequest(req') =>
          /\ req'.token = IF req'.cookies # None /\ req'.cookies # ""
                          THEN req'.cookies
                          ELSE req'.headers
          /\ (/\ req'.cookies # None /\ req'.cookies # ""
              /\ req'.cookies \notin DOMAIN sessions
              /\ req'.headers \in DOMAIN sessions) =>
                /\ IsRosterRequest(req') =>
                      /\ resp' = HTTPException(401, "Admin authentication required")
                      /\ activities' = activities
                /\ req'.op = "logout" =>
                      /\ req'.headers \in DOMAIN sessions'
                      /\ sessions' = sessions
      ]_vars

\* a signup carried a logged-out or never issued token in the cookie and a
\* session's token in the header, and got 401
C13_Witness ==
    /\ req.op = "signup"
    /\ req.cookies \in Tokens \cup {ForgedToken}
    /\ req.cookies \notin DOMAIN sessions
    /\ req.headers \in DOMAIN sessions
    /\ resp.status = 401

\* C14: started without a readable teachers file, the Teacher Directory is
\* empty, requests are served, no login succeeds, sessions stays empty and
\* every participant list keeps its seed value.
C14_NoTeachersNoSessions ==
    /\ teachers = EmptyDict
    /\ sessions = EmptyDict
    /\ \A n \in DOMAIN SeedActivities :
          Participants(n) = SeedActivities[n].participants
    /\ req.op = "login" => resp.status \in {400, 401}
    /\ IsRosterRequest(req) => resp.status = 401
    /\ req.op = "get_activities" => resp.status = 200 /\ resp.body = SeedActivities

\* a login with credentials that a teachers file would hold was served and
\* got 401
C14_Witness ==
    /\ teachers = EmptyDict
    /\ req.op = "login"
    /\ req.username = "alice"
    /\ req.password = "pw1"
    /\ resp = HTTPException(401, "invalid credentials")

\* C15: signup handlers are not synchronized: a thread that found the
\* email absent appends it and answers 200 also when another thread has
\* appended the same email in between, so the email can be in the list
\* twice.
C15_AppendAfterStaleCheck ==
    [][ \A t \in Threads :
          (/\ req[t].pc = "mutate"
           /\ req[t].op = "signup"
           /\ req'[t].pc = "done") =>
             /\ activities'[req[t].activity_name].participants =
                   Append(activities[req[t].activity_name].participants,
                          req[t].email)
             /\ resp'[t] = Message("Signed up " \o req[t].email \o " for "
                                      \o req[t].activity_name)
      ]_vars

\* two signups for the same email both answered 200 and the email is in the
\* Chess Club list twice
C15_Witness ==
    /\ \A t \in {1, 2} :
          /\ req[t].op = "signup"
          /\ req[t].pc = "done"
          /\ req[t].email = "new@x.edu"
          /\ resp[t].status = 200
    /\ Count("new@x.edu", Participants("Chess Club")) = 2

\* C16: every unregister request ends in one of the four documented
\* outcomes (200, 401, 404, 400), and the removal is never reached with a
\* list that does not contain the email.
C16_UnregisterOutcomes ==
    \A t \in Threads :
        req[t].op = "unregister" =>
            /\ req[t].pc = "done" => resp[t].status \in {200, 401, 404, 400}
            /\ req[t].pc = "mutate" =>
                  InList(req[t].email,
                         activities[req[t].activity_name].participants)

\* s holds entries of list t only, each once, in the order they have in t
\* (t has no entry twice)
IsOrderedPart(s, t) ==
    /\ \A i \in 1..Len(s) : InList(s[i], t)
    /\ \A i, j \in 1..Len(s) : i < j => FirstIndex(s[i], t) < FirstIndex(s[j], t)

\* the emails signup requests name for activity n
SignupEmails(n) == {t[2] : t \in {u \in Targets : u[1] = n}}

\* list with its entry at index k taken out
WithoutIndex(list, k) == SubSeq(list, 1, k - 1) \o SubSeq(list, k + 1, Len(list))

\* C17: a successful signup puts the email at the end of the named list,
\* behind every entry the list had; a successful unregister takes the
\* email out and leaves the other entries in the order they had; so in
\* every reachable state each list is seed entries in seed order followed
\* by emails that were signed up later.
C17_ListsKeepSignupOrder ==
    /\ [](\A n \in DOMAIN activities :
            \E k \in 0..Len(Participants(n)) :
                /\ IsOrderedPart(SubSeq(Participants(n), 1, k),
                                 SeedActivities[n].participants)
                /\ \A i \in (k+1)..Len(Participants(n)) :
                      Participants(n)[i] \in SignupEmails(n))
    /\ [][ (IsRosterRequest(req') /\ resp'.status = 200) =>
              LET before == activities[req'.activity_name].participants
                  after  == activities'[req'.activity_name].participants
              IN  /\ req'.op = "signup" => after = Append(before, req'.email)
                  /\ req'.op = "unregister" =>
                        \E k \in 1..Len(before) :
                            /\ before[k] = req'.email
                            /\ after = WithoutIndex(before, k)
         ]_vars

\* michael was unregistered from <<michael, daniel, new>> or from
\* <<daniel, new, michael>>: daniel and new kept their order
C17_Witness ==
    /\ req.op = "unregister"
    /\ req.email = "michael@mergington.edu"
    /\ resp.status = 200
    /\ Participants("Chess Club") = <<"daniel@mergington.edu", "new@x.edu">>

\* C18: a signup or unregister answered 401, 404 or 400 changes nothing:
\* every participant list (all of activities), sessions and teachers are
\* after the request what they were before it.
C18_FailedRosterRequestChangesNothing ==
    [][ (IsRosterRequest(req') /\ resp'.status \in {401, 404, 400}) =>
            /\ activities' = activities
            /\ sessions' = sessions
            /\ teachers' = teachers
      ]_vars

\* with rosters changed and a session open, a signup was answered 400 and
\* an unregister for an unknown activity 404
C18_Witness ==
    /\ IsRosterRequest(req)
    /\ resp.status \in {400, 404}
    /\ req.token \in DOMAIN sessions
    /\ activities # SeedActivities
    /\ Len(Participants("Programming Class")) = 3

\* C19: in every reachable state every session maps its token to a
\* username that is a key of teachers; no step (login, logout, signup,
\* unregister or any other request) changes teachers.
C19_SessionsNameTeachers ==
    /\ [](\A token \in DOMAIN sessions : sessions[token] \in DOMAIN teachers)
    /\ [][teachers' = teachers]_vars

\* alice and bob each hold a session and a login as mallory was refused
C19_Witness ==
    /\ {sessions[token] : token \in DOMAIN sessions} = {"alice", "bob"}
    /\ req.op = "login"
    /\ req.username = "mallory"
    /\ resp.status = 401

\* C20: signup then unregister is a round trip: an authenticated
\* signup(A,E) for an existing activity A whose list does not hold E
\* succeeds, and an authenticated unregister(A,E) served right after it
\* succeeds too and leaves A's list equal, entry by entry, to the list
\* before the signup.
C20_SignupUnregisterRoundTrip ==
    [][ /\ (/\ req'.op = "signup"
            /\ req'.token \in DOMAIN sessions
            /\ req'.activity_name \in DOMAIN activities
            /\ ~InList(req'.email, activities[req'.activity_name].participants)) =>
              /\ resp'.status = 200
              /\ activities'[req'.activity_name].participants =
                    Append(activities[req'.activity_name].participants, req'.email)
        /\ (/\ req.op = "signup"
            /\ resp.status = 200
            /\ req'.op = "unregister"
            /\ req'.token \in DOMAIN sessions
            /\ req'.activity_name = req.activity_name
            /\ req'.email = req.email) =>
              /\ resp'.status = 200
              /\ Append(activities'[req.activity_name].participants, req.email) =
                    activities[req.activity_name].participants
      ]_vars

\* new@x.edu was signed up for Chess Club, then holding <<daniel>>, and
\* unregistered again
C20_Witness ==
    /\ req.op = "unregister"
    /\ req.activity_name = "Chess Club"
    /\ req.email = "new@x.edu"
    /\ resp.status = 200
    /\ Participants("Chess Club") = <<"daniel@mergington.edu">>

TypeOK ==
    /\ DOMAIN activities = DOMAIN SeedActivities
    /\ DOMAIN sessions \subseteq Tokens
    /\ resp.status \in {0, 200, 307, 400, 401, 404}

====
